---- MODULE Spec2Model ----
(***************************************************************************)
(* Model of esv_reference_server/handlers_headers.py: the headers          *)
(* websocket view (HeadersWebSocket), its initial chain-tip push and its   *)
(* receive loop, together with the client registry it shares with the      *)
(* tip-change broadcaster.                                                 *)
(*                                                                         *)
(* Each session is one run of HeadersWebSocket.get.  Its position in the   *)
(* coroutine is pc[s]; the steps are cut at the awaits of the code.        *)
(* Bytes are naturals 0..255, byte strings are sequences of them.          *)
(***************************************************************************)
EXTENDS Integers, Sequences, FiniteSets, TLC

(* ------------------------------ bounds --------------------------------- *)

\* number of websocket sessions (runs of HeadersWebSocket.get)
NumSessions == 2

\* text messages one client sends at most
MaxTexts == 2

\* tip-change broadcasts at most
MaxBroadcasts == 1

Sessions == 1..NumSessions

NoId == 0

\* uuid.uuid4() of the session's run of get: a value no other call returns
uuid4(s) == 100 + s

(* --------------------------- bytes and frames -------------------------- *)

HEADER_LEN == 80

FRAME_LEN == 84

\* The 80 raw header bytes the upstream stores under a block hash.
RawHeader(hash) ==
    [i \in 1..HEADER_LEN |-> IF hash = "hashA" THEN i ELSE 255 - i]

\* struct.pack('<I', n): least significant byte first
pack_le_uint32(n) ==
    << n % 256, (n \div 256) % 256, (n \div 65536) % 256, (n \div 16777216) % 256 >>

\* bitcoinx.pack_be_uint32: struct.Struct('>I').pack, most significant byte first
pack_be_uint32(n) ==
    << (n \div 16777216) % 256, (n \div 65536) % 256, (n \div 256) % 256, n % 256 >>

\* struct.unpack('<I', b)[0] of the test helper
unpack_le_uint32(b) ==
    b[1] + 256 * b[2] + 65536 * b[3] + 16777216 * b[4]

\* response = bytearray(); response += result; response += pack_be_uint32(height)
EncodeTipFrame(result, height) == result \o pack_be_uint32(height)

\* The test helper _assert_tip_notification_structure: it asserts that the
\* frame is 84 bytes long, reads bytes 80..83 with '<I' into its local height
\* and returns True; a frame of another length raises AssertionError before
\* height is bound.
DecodeTipFrame(frame) ==
    IF Len(frame) # FRAME_LEN
    THEN [raised |-> "AssertionError", result |-> FALSE, bound |-> FALSE, height |-> 0]
    ELSE [raised |-> "none", result |-> TRUE, bound |-> TRUE,
          height |-> unpack_le_uint32(SubSeq(frame, HEADER_LEN + 1, FRAME_LEN))]

(* ------------------------------ upstream ------------------------------- *)

Tip(state, hash, height) == [state |-> state, hash |-> hash, height |-> height]

\* Answers of GET /api/v1/chain/tips (the JSON list, reduced to the fields read).
TipsNone == << >>

TipsOneAmongStale ==
    << Tip("LONGEST_CHAIN", "hashA", 16909060), Tip("STALE", "hashB", 259) >>

TipsTwoLongest ==
    << Tip("LONGEST_CHAIN", "hashA", 1), Tip("LONGEST_CHAIN", "hashB", 258) >>

TipsAnswers == { TipsNone, TipsOneAmongStale, TipsTwoLongest }

\* Outcomes of GET /api/v1/chain/header/{hash}: 200 with the header, or an
\* answer with an empty body (the hash is unknown to the upstream).
HeaderOutcomes == { "ok", "empty" }

HeaderBody(outcome, hash) ==
    IF outcome = "ok" THEN RawHeader(hash) ELSE << >>

Unbound == [bound |-> FALSE, hash |-> "", height |-> 0]

\* for tip in result: if tip['state'] == "LONGEST_CHAIN": current_best_* = ...
RECURSIVE SelectTipFrom(_, _, _)
SelectTipFrom(result, i, best) ==
    IF i > Len(result) THEN best
    ELSE SelectTipFrom(result, i + 1,
            IF result[i].state = "LONGEST_CHAIN"
            THEN [bound |-> TRUE, hash |-> result[i].hash, height |-> result[i].height]
            ELSE best)

\* (variant: the state field is not looked at, the last entry is taken)
SelectLastEntry(result) ==
    IF Len(result) = 0 THEN Unbound
    ELSE [bound |-> TRUE, hash |-> result[Len(result)].hash,
          height |-> result[Len(result)].height]

\* the values of current_best_hash, current_best_height after the loop
SelectTip(result) == SelectTipFrom(result, 1, Unbound)

(* ------------------------------- state --------------------------------- *)

VARIABLES
    pc,                 \* position of each run of HeadersWebSocket.get
    ws_id,              \* ws_id of each session (NoId before uuid4 is called)
    headers_ws_clients, \* the registry: app['headers_ws_clients'], ws_id -> client
    closedBy,           \* the socket: "open", closed by the "peer" side or by the "session"
    raised,             \* the exception propagating out of get ("none" if none)
    current_best,       \* current_best_hash / current_best_height of _send_chain_tip
    tipsSeen,           \* what the chain-tips request returned to the session
    hdrSeen,            \* what the raw-header request returned to the session
    delivered,          \* frames pushed to each socket, in order
    texts,              \* text messages the session has read
    lastMsg,            \* type of the last message the session has read
    bcPending,          \* clients the running broadcast still has to push to
    bcCount,            \* broadcasts started
    prReq,              \* the proxy request being handled (web.Request)
    prUp,               \* what the upstream did with the request forwarded for it
    prResp              \* what the proxy handler gave back: a response, or a raise

sessionVars == << pc, ws_id, headers_ws_clients, closedBy, raised, current_best,
                  tipsSeen, hdrSeen, delivered, texts, lastMsg, bcPending, bcCount >>

proxyVars == << prReq, prUp, prResp >>

vars == << sessionVars, proxyVars >>

NoAnswer == [st |-> "none", body |-> << >>]

\* no proxy request is being handled
NoRequest == [op |-> "none", accept |-> "", hash |-> "", query |-> ""]

\* no request has been forwarded to the upstream
NoUpstream == [kind |-> "none", status |-> 0, reason |-> "", ctype |-> ""]

NoResponse == [kind |-> "none", status |-> 0, reason |-> "", body |-> ""]

Unreachable == [st |-> "unreachable", body |-> << >>]

Init ==
    /\ pc = [s \in Sessions |-> "idle"]
    /\ ws_id = [s \in Sessions |-> NoId]
    /\ headers_ws_clients = << >>
    /\ closedBy = [s \in Sessions |-> "open"]
    /\ raised = [s \in Sessions |-> "none"]
    /\ current_best = [s \in Sessions |-> Unbound]
    /\ tipsSeen = [s \in Sessions |-> NoAnswer]
    /\ hdrSeen = [s \in Sessions |-> "none"]
    /\ delivered = [s \in Sessions |-> << >>]
    /\ texts = [s \in Sessions |-> 0]
    /\ lastMsg = [s \in Sessions |-> "none"]
    /\ bcPending = {}
    /\ bcCount = 0
    /\ prReq = NoRequest
    /\ prUp = NoUpstream
    /\ prResp = NoResponse

(* ------------------------------ registry ------------------------------- *)

HeadersWSClient(id, s) == [ws_id |-> id, websocket |-> s]

\* ApplicationState.add_ws_client: insert the client under its ws_id
add_ws_client(reg, client) ==
    [i \in DOMAIN reg \cup {client.ws_id} |->
        IF i = client.ws_id THEN client ELSE reg[i]]

\* insert(id, connection) of the registry can be refused
InsertOutcomes == { "inserted", "refused" }

\* (variant: the entry is left in place)
DelKeepsEntry(reg, id) == reg

\* (variant: the entries of the other ids are removed)
DelOtherEntries(reg, id) == [i \in DOMAIN reg \cap {id} |-> reg[i]]

\* del self.request.app['headers_ws_clients'][ws_id]
DelClient(reg, id) == [i \in DOMAIN reg \ {id} |-> reg[i]]

Frame(src, data) == [src |-> src, data |-> data]

(* ------------------------------ session -------------------------------- *)

\* ws = web.WebSocketResponse(); await ws.prepare(request); ws_id = str(uuid.uuid4())
Connect(s) ==
    /\ pc[s] = "idle"
    /\ ws_id' = [ws_id EXCEPT ![s] = uuid4(s)]
    /\ pc' = [pc EXCEPT ![s] = "try"]
    /\ UNCHANGED << headers_ws_clients, closedBy, raised, current_best, tipsSeen,
                    hdrSeen, delivered, texts, lastMsg, bcPending, bcCount >>
    /\ UNCHANGED proxyVars

\* client = HeadersWSClient(...); add_ws_client(client); then _handle_new_connection
\* runs up to its first await, the chain-tips request of _send_chain_tip
Register(s) ==
    /\ pc[s] = "try"
    /\ \E outcome \in InsertOutcomes :
         IF outcome = "inserted"
         THEN /\ headers_ws_clients' =
                   add_ws_client(headers_ws_clients, HeadersWSClient(ws_id[s], s))
              /\ pc' = [pc EXCEPT ![s] = "fetch_tips"]
              /\ raised' = raised
         ELSE \* add_ws_client raises: the try block is left at once
              /\ headers_ws_clients' = headers_ws_clients
              /\ pc' = [pc EXCEPT ![s] = "finally_close"]
              /\ raised' = [raised EXCEPT ![s] = "InsertError"]
    /\ UNCHANGED << ws_id, closedBy, current_best, tipsSeen, hdrSeen,
                    delivered, texts, lastMsg, bcPending, bcCount >>
    /\ UNCHANGED proxyVars

\* (variant: the connection failure is not caught and leaves get)
ConnectorErrorFatal(s) ==
    /\ pc' = [pc EXCEPT ![s] = "finally_close"]
    /\ raised' = [raised EXCEPT ![s] = "ClientConnectorError"]

\* except aiohttp.ClientConnectorError: log, pass; then the receive loop starts
OnConnectorError(s) ==
    /\ pc' = [pc EXCEPT ![s] = "recv"]
    /\ raised' = raised

\* the chain-tips request and the loop over its answer
FetchTips(s) ==
    /\ pc[s] = "fetch_tips"
    /\ \/ /\ tipsSeen' = [tipsSeen EXCEPT ![s] = Unreachable]
          /\ OnConnectorError(s)
          /\ UNCHANGED current_best
       \/ \E result \in TipsAnswers :
            /\ tipsSeen' = [tipsSeen EXCEPT ![s] = [st |-> "ok", body |-> result]]
            /\ current_best' = [current_best EXCEPT ![s] = SelectTip(result)]
            /\ IF SelectTip(result).bound
               THEN /\ pc' = [pc EXCEPT ![s] = "fetch_header"]
                    /\ raised' = raised
               ELSE \* current_best_hash is read unbound at the second request
                    /\ pc' = [pc EXCEPT ![s] = "finally_close"]
                    /\ raised' = [raised EXCEPT ![s] = "UnboundLocalError"]
    /\ UNCHANGED << ws_id, headers_ws_clients, closedBy, hdrSeen, delivered,
                    texts, lastMsg, bcPending, bcCount >>
    /\ UNCHANGED proxyVars

\* the raw-header request, the frame and client.websocket.send_bytes(response)
FetchHeaderAndSend(s) ==
    /\ pc[s] = "fetch_header"
    /\ \/ /\ hdrSeen' = [hdrSeen EXCEPT ![s] = "unreachable"]
          /\ OnConnectorError(s)
          /\ UNCHANGED delivered
       \/ \E outcome \in HeaderOutcomes :
            /\ hdrSeen' = [hdrSeen EXCEPT ![s] = outcome]
            /\ \/ \* the frame is written to the socket
                  /\ delivered' = [delivered EXCEPT ![s] = Append(@,
                        Frame("init", EncodeTipFrame(
                            HeaderBody(outcome, current_best[s].hash),
                            current_best[s].height)))]
                  /\ pc' = [pc EXCEPT ![s] = "recv"]
                  /\ raised' = raised
               \/ \* send_bytes raises: the connection is already lost
                  /\ delivered' = delivered
                  /\ pc' = [pc EXCEPT ![s] = "finally_close"]
                  /\ raised' = [raised EXCEPT ![s] = "ConnectionResetError"]
    /\ UNCHANGED << ws_id, headers_ws_clients, closedBy, current_best, tipsSeen,
                    texts, lastMsg, bcPending, bcCount >>
    /\ UNCHANGED proxyVars

\* (variant: the commented-out echo of lines 165-167 is sent)
RecvTextEcho(s) ==
    /\ pc[s] = "recv"
    /\ closedBy[s] = "open"
    /\ texts[s] < MaxTexts
    /\ texts' = [texts EXCEPT ![s] = @ + 1]
    /\ lastMsg' = [lastMsg EXCEPT ![s] = "text"]
    /\ delivered' = [delivered EXCEPT ![s] = Append(@, Frame("echo", << >>))]
    /\ UNCHANGED << pc, ws_id, headers_ws_clients, closedBy, raised, current_best,
                    tipsSeen, hdrSeen, bcPending, bcCount >>
    /\ UNCHANGED proxyVars

\* a text message: logged, nothing else
RecvText(s) ==
    /\ pc[s] = "recv"
    /\ closedBy[s] = "open"
    /\ texts[s] < MaxTexts
    /\ texts' = [texts EXCEPT ![s] = @ + 1]
    /\ lastMsg' = [lastMsg EXCEPT ![s] = "text"]
    /\ UNCHANGED << pc, ws_id, headers_ws_clients, closedBy, raised, current_best,
                    tipsSeen, hdrSeen, delivered, bcPending, bcCount >>
    /\ UNCHANGED proxyVars

\* a message of type error: the socket has closed itself while reading; the
\* handler logs the exception and goes round the loop
RecvError(s) ==
    /\ pc[s] = "recv"
    /\ closedBy[s] = "open"
    /\ closedBy' = [closedBy EXCEPT ![s] = "peer"]
    /\ lastMsg' = [lastMsg EXCEPT ![s] = "error"]
    /\ UNCHANGED << pc, ws_id, headers_ws_clients, raised, current_best, tipsSeen,
                    hdrSeen, delivered, texts, bcPending, bcCount >>
    /\ UNCHANGED proxyVars

\* the peer's close message: the socket answers it and the iteration stops
RecvClose(s) ==
    /\ pc[s] = "recv"
    /\ closedBy[s] = "open"
    /\ closedBy' = [closedBy EXCEPT ![s] = "peer"]
    /\ lastMsg' = [lastMsg EXCEPT ![s] = "close"]
    /\ pc' = [pc EXCEPT ![s] = "finally_close"]
    /\ UNCHANGED << ws_id, headers_ws_clients, raised, current_best, tipsSeen,
                    hdrSeen, delivered, texts, bcPending, bcCount >>
    /\ UNCHANGED proxyVars

\* async for on a socket that is closed: the iteration stops, get reaches return ws
RecvEnd(s) ==
    /\ pc[s] = "recv"
    /\ closedBy[s] # "open"
    /\ pc' = [pc EXCEPT ![s] = "finally_close"]
    /\ UNCHANGED << ws_id, headers_ws_clients, closedBy, raised, current_best,
                    tipsSeen, hdrSeen, delivered, texts, lastMsg, bcPending, bcCount >>
    /\ UNCHANGED proxyVars

\* finally: await ws.close(), up to its suspension.  Closing a closed socket
\* does nothing and returns at once; closing an open one marks it closed and
\* then awaits the close handshake, so other tasks run before it returns.
FinallyClose(s) ==
    /\ pc[s] = "finally_close"
    /\ pc' = [pc EXCEPT ![s] = "finally_del"]
    /\ closedBy' = [closedBy EXCEPT ![s] = IF @ = "open" THEN "session" ELSE @]
    /\ UNCHANGED << ws_id, headers_ws_clients, raised, current_best, tipsSeen,
                    hdrSeen, delivered, texts, lastMsg, bcPending, bcCount >>
    /\ UNCHANGED proxyVars

\* the awaited close handshake raises (CancelledError, TimeoutError): the rest
\* of the finally block is skipped and the new exception replaces the one that
\* was propagating.  Only a close that the session itself began is awaited.
FinallyCloseRaises(s) ==
    /\ pc[s] = "finally_del"
    /\ closedBy[s] = "session"
    /\ pc' = [pc EXCEPT ![s] = "done"]
    /\ raised' = [raised EXCEPT ![s] = "CancelledError"]
    /\ UNCHANGED << ws_id, headers_ws_clients, closedBy, current_best, tipsSeen,
                    hdrSeen, delivered, texts, lastMsg, bcPending, bcCount >>
    /\ UNCHANGED proxyVars

\* finally: ws.close() has returned; del self.request.app['headers_ws_clients'][ws_id]
FinallyDel(s) ==
    /\ pc[s] = "finally_del"
    /\ pc' = [pc EXCEPT ![s] = "done"]
    /\ IF ws_id[s] \in DOMAIN headers_ws_clients
       THEN /\ headers_ws_clients' = DelClient(headers_ws_clients, ws_id[s])
            /\ raised' = raised
       ELSE /\ headers_ws_clients' = headers_ws_clients
            /\ raised' = [raised EXCEPT ![s] = "KeyError"]
    /\ UNCHANGED << ws_id, closedBy, current_best, tipsSeen, hdrSeen, delivered,
                    texts, lastMsg, bcPending, bcCount >>
    /\ UNCHANGED proxyVars

(* ----------------------------- broadcaster ----------------------------- *)

\* the tip the broadcaster announces, and its frame (Tip Encoder of the design)
BroadcastFrame == RawHeader("hashB") \o pack_le_uint32(259)

\* a tip change: the broadcaster takes the registered clients
BroadcastStart ==
    /\ bcCount < MaxBroadcasts
    /\ bcPending = {}
    /\ DOMAIN headers_ws_clients # {}
    /\ bcPending' = { headers_ws_clients[i].websocket : i \in DOMAIN headers_ws_clients }
    /\ bcCount' = bcCount + 1
    /\ UNCHANGED << pc, ws_id, headers_ws_clients, closedBy, raised, current_best,
                    tipsSeen, hdrSeen, delivered, texts, lastMsg >>
    /\ UNCHANGED proxyVars

\* the broadcaster pushes the frame to one client; a closed socket takes nothing
BroadcastPush(s) ==
    /\ s \in bcPending
    /\ bcPending' = bcPending \ {s}
    /\ delivered' = IF closedBy[s] = "open"
                    THEN [delivered EXCEPT ![s] = Append(@, Frame("bcast", BroadcastFrame))]
                    ELSE delivered
    /\ UNCHANGED << pc, ws_id, headers_ws_clients, closedBy, raised, current_best,
                    tipsSeen, hdrSeen, texts, lastMsg, bcCount >>
    /\ UNCHANGED proxyVars

(* --------------------------- specification ----------------------------- *)

Next ==
    \/ \E s \in Sessions : Connect(s)
    \/ \E s \in Sessions : Register(s)
    \/ \E s \in Sessions : FetchTips(s)
    \/ \E s \in Sessions : FetchHeaderAndSend(s)
    \/ \E s \in Sessions : RecvText(s)
    \/ \E s \in Sessions : RecvError(s)
    \/ \E s \in Sessions : RecvClose(s)
    \/ \E s \in Sessions : RecvEnd(s)
    \/ \E s \in Sessions : FinallyClose(s)
    \/ \E s \in Sessions : FinallyCloseRaises(s)
    \/ \E s \in Sessions : FinallyDel(s)
    \/ BroadcastStart
    \/ \E s \in Sessions : BroadcastPush(s)

Spec == Init /\ [][Next]_vars

\* What the event loop guarantees: a coroutine whose await has completed is
\* resumed.  The steps that wait for nothing outside the server are taken.
SessionStep(s) ==
    RecvEnd(s) \/ FinallyClose(s) \/ FinallyCloseRaises(s) \/ FinallyDel(s)

FairSpec == Spec /\ \A s \in Sessions : WF_vars(SessionStep(s))

(* --------------------------- proxy handlers ---------------------------- *)

HTTP_OK == 200

HTTP_BAD_REQUEST == 400

HTTP_SERVICE_UNAVAILABLE == 503

OCTET == "application/octet-stream"

JSON == "application/json"

\* request.headers.get('Accept')
AcceptTypes == { OCTET, JSON, "" }

\* request.match_info.get('hash'): None ("missing") when the route gave none
HashParams == { "missing", "", "hashA" }

\* request.rel_url.query of get_headers_by_height
Queries == { "", "height=5&count=2" }

Request(op, accept, hash, query) ==
    [op |-> op, accept |-> accept, hash |-> hash, query |-> query]

Requests ==
    { Request("get_header", a, h, "") : a \in AcceptTypes, h \in HashParams }
    \cup { Request("get_headers_by_height", a, "", q) : a \in AcceptTypes, q \in Queries }
    \cup { Request(op, a, "", "") : op \in {"get_chain_tips", "get_peers"},
                                     a \in AcceptTypes }

\* response.status of the upstream: success, not found, internal error
UpstreamStatuses == { HTTP_OK, 404, 500 }

ReasonOf(status) ==
    CASE status = HTTP_OK -> "OK"
      [] status = 404 -> "Not Found"
      [] OTHER -> "Internal Server Error"

\* client_session.get(...) raises aiohttp.ClientConnectorError
UpUnreachableAnswer ==
    [kind |-> "unreachable", status |-> 0, reason |-> "", ctype |-> ""]

\* what client_session.get(...) can do: fail to connect, or give a response
UpstreamAnswers ==
    { UpUnreachableAnswer }
    \cup { [kind |-> "answer", status |-> st, reason |-> ReasonOf(st), ctype |-> ct] :
             st \in UpstreamStatuses,
             ct \in {JSON, "text/plain"} }

Response(status, reason, body) ==
    [kind |-> "response", status |-> status, reason |-> reason, body |-> body]

Raised(exc) == [kind |-> "raised", status |-> 0, reason |-> exc, body |-> ""]

\* the handler's result and the upstream exchange it made (NoUpstream: none)
Handled(resp, up) == [resp |-> resp, up |-> up]

\* await response.json(): the body parsed, or ContentTypeError when the
\* response is not of type application/json
JsonResponse(up) ==
    IF up.ctype = JSON
    THEN Response(HTTP_OK, "OK", "upstream-json")
    ELSE Raised("ContentTypeError")

\* (variant: the path parameter is not checked before the request is forwarded)
get_header_unchecked(req, up) ==
    IF up.kind = "unreachable"
    THEN Handled(Response(HTTP_SERVICE_UNAVAILABLE, "Service Unavailable", ""), up)
    ELSE IF req.hash \in {"missing", ""}
    THEN Handled(Response(HTTP_BAD_REQUEST, "'hash' path parameter not supplied", ""), up)
    ELSE Handled(Response(HTTP_OK, "OK", "upstream-bytes"), up)

\* get_header
get_header(req, up) ==
    IF req.hash \in {"missing", ""}
    THEN Handled(Response(HTTP_BAD_REQUEST, "'hash' path parameter not supplied", ""),
                 NoUpstream)
    ELSE IF up.kind = "unreachable"
    THEN Handled(Response(HTTP_SERVICE_UNAVAILABLE, "Service Unavailable", ""), up)
    ELSE IF req.accept = OCTET
    THEN Handled(Response(HTTP_OK, "OK", "upstream-bytes"), up)
    ELSE IF up.status # HTTP_OK
    THEN Handled(Response(up.status, up.reason, ""), up)
    ELSE Handled(JsonResponse(up), up)

\* get_headers_by_height
get_headers_by_height(req, up) ==
    IF up.kind = "unreachable"
    THEN Handled(Response(HTTP_SERVICE_UNAVAILABLE, "Service Unavailable", ""), up)
    ELSE IF req.accept = OCTET
    THEN IF up.status # HTTP_OK
         THEN Handled(Response(up.status, up.reason, ""), up)
         ELSE Handled(Response(HTTP_OK, "OK", "upstream-bytes"), up)
    ELSE Handled(JsonResponse(up), up)

\* get_chain_tips and get_peers: no try block, no look at the status
get_json(req, up) ==
    IF up.kind = "unreachable"
    THEN Handled(Raised("ClientConnectorError"), up)
    ELSE Handled(JsonResponse(up), up)

get_chain_tips(req, up) == get_json(req, up)

get_peers(req, up) == get_json(req, up)

\* a request arrives at one of the proxy routes
ProxyArrive ==
    /\ prReq = NoRequest
    /\ prReq' \in Requests
    /\ UNCHANGED << prUp, prResp, sessionVars >>

\* the handler of the route runs to its end, against what the upstream does
GetHeader ==
    /\ prReq.op = "get_header"
    /\ prResp = NoResponse
    /\ \E up \in UpstreamAnswers :
         /\ prResp' = get_header(prReq, up).resp
         /\ prUp' = get_header(prReq, up).up
    /\ UNCHANGED << prReq, sessionVars >>

GetHeadersByHeight ==
    /\ prReq.op = "get_headers_by_height"
    /\ prResp = NoResponse
    /\ \E up \in UpstreamAnswers :
         /\ prResp' = get_headers_by_height(prReq, up).resp
         /\ prUp' = get_headers_by_height(prReq, up).up
    /\ UNCHANGED << prReq, sessionVars >>

GetChainTips ==
    /\ prReq.op = "get_chain_tips"
    /\ prResp = NoResponse
    /\ \E up \in UpstreamAnswers :
         /\ prResp' = get_chain_tips(prReq, up).resp
         /\ prUp' = get_chain_tips(prReq, up).up
    /\ UNCHANGED << prReq, sessionVars >>

GetPeers ==
    /\ prReq.op = "get_peers"
    /\ prResp = NoResponse
    /\ \E up \in UpstreamAnswers :
         /\ prResp' = get_peers(prReq, up).resp
         /\ prUp' = get_peers(prReq, up).up
    /\ UNCHANGED << prReq, sessionVars >>

\* the response (or the server's answer to the raise) has gone to the caller
ProxyReply ==
    /\ prResp # NoResponse
    /\ prReq' = NoRequest
    /\ prUp' = NoUpstream
    /\ prResp' = NoResponse
    /\ UNCHANGED sessionVars

ProxyNext ==
    \/ ProxyArrive
    \/ GetHeader
    \/ GetHeadersByHeight
    \/ GetChainTips
    \/ GetPeers
    \/ ProxyReply

ProxySpec == Init /\ [][ProxyNext]_vars

(* ------------------------- derived observations ------------------------ *)

\* the frames the session itself has written to its socket, in order
SessionFrames(s) == SelectSeq(delivered[s], LAMBDA f : f.src # "bcast")

LongestEntries(result) ==
    { i \in DOMAIN result : result[i].state = "LONGEST_CHAIN" }

\* the upstream has answered the chain-tips request with this many longest tips
AnsweredWith(s, n) ==
    /\ tipsSeen[s].st = "ok"
    /\ Cardinality(LongestEntries(tipsSeen[s].body)) = n

TheLongest(result) == result[CHOOSE i \in LongestEntries(result) : TRUE]

UpUnreachable(s) == tipsSeen[s].st = "unreachable" \/ hdrSeen[s] = "unreachable"

Registered(s) == ws_id[s] \in DOMAIN headers_ws_clients

\* the session has got as far as the receive loop
ReachedLoop(s) == pc[s] = "recv" \/ lastMsg[s] # "none" \/ texts[s] > 0

(* ------------------------------- claims -------------------------------- *)

\* C1: every session that was registered and has left get, by return or by
\* exception, has no entry left in the registry under its ws_id.
C1_TeardownRemovesEntry ==
    \A s \in Sessions : pc[s] = "done" => ~Registered(s)

\* the session is connected: registered, and neither side has ended it
Connected(s) ==
    /\ pc[s] \in {"fetch_tips", "fetch_header", "recv"}
    /\ closedBy[s] = "open"

\* C2: when all sessions are registered and none has disconnected the registry
\* holds one entry per session under pairwise distinct ids, and when all of
\* them have left get the registry is empty.
C2_RegistryCountsSessions ==
    /\ (\A s \in Sessions : Connected(s)) =>
          /\ Cardinality(DOMAIN headers_ws_clients) = NumSessions
          /\ \A s, t \in Sessions : s # t => ws_id[s] # ws_id[t]
    /\ (\A s \in Sessions : pc[s] = "done") => DOMAIN headers_ws_clients = {}

\* C3: on every socket the frame of the initial tip push comes before every
\* frame a broadcast has pushed to that socket.
C3_InitialPushBeforeBroadcast ==
    \A s \in Sessions : \A i, j \in DOMAIN delivered[s] :
        (i < j /\ delivered[s][j].src = "init") => delivered[s][i].src # "bcast"

\* C4: a session whose chain-tips answer holds exactly one LONGEST_CHAIN entry
\* and whose raw-header request was answered sends at most one frame; once it
\* is in the receive loop it has sent exactly one; and that frame is the
\* answered header bytes of that entry followed by its packed height.
C4_OneInitialFrame ==
    \A s \in Sessions :
        (AnsweredWith(s, 1) /\ hdrSeen[s] \in HeaderOutcomes) =>
            LET e == TheLongest(tipsSeen[s].body)
                fs == SessionFrames(s)
            IN  /\ Len(fs) <= 1
                /\ ReachedLoop(s) => Len(fs) = 1
                /\ Len(fs) = 1 =>
                      /\ fs[1].src = "init"
                      /\ fs[1].data =
                            HeaderBody(hdrSeen[s], e.hash) \o pack_be_uint32(e.height)

C4_Witness ==
    \E s \in Sessions :
        /\ AnsweredWith(s, 1)
        /\ hdrSeen[s] = "ok"
        /\ texts[s] > 0
        /\ Len(SessionFrames(s)) = 1
        /\ Len(tipsSeen[s].body) > 1

\* C5: when the upstream is unreachable on the chain-tips request or on the
\* raw-header request, the session goes on to the receive loop with its socket
\* open and its registry entry in place; it never sends a frame; and it leaves
\* the loop only on a close or an error arriving from the client socket.
C5_Step ==
    \A s \in Sessions :
        /\ (UpUnreachable(s)' /\ ~UpUnreachable(s)) =>
              /\ pc'[s] = "recv"
              /\ closedBy'[s] = "open"
              /\ raised'[s] = "none"
              /\ Registered(s)'
        /\ (UpUnreachable(s) /\ pc[s] = "recv") =>
              /\ Registered(s)'
              /\ pc'[s] # "recv" => lastMsg'[s] \in {"close", "error"}
              /\ closedBy'[s] # "open" => lastMsg'[s] \in {"close", "error"}

C5_UnreachableIsNotFatal ==
    /\ [](\A s \in Sessions : UpUnreachable(s) => SessionFrames(s) = << >>)
    /\ [][C5_Step]_vars

C5_Witness ==
    \E s \in Sessions :
        /\ hdrSeen[s] = "unreachable"
        /\ pc[s] = "recv"
        /\ texts[s] = MaxTexts
        /\ closedBy[s] = "open"
        /\ Registered(s)
        /\ delivered[s] # << >>

\* C6: every frame a session sends is 84 bytes long, and a raw-header answer
\* that is not 80 bytes long makes the session send no frame.
C6_FramesAre84Bytes ==
    \A s \in Sessions :
        /\ \A i \in DOMAIN delivered[s] :
              delivered[s][i].src # "bcast" => Len(delivered[s][i].data) = FRAME_LEN
        /\ (hdrSeen[s] \in HeaderOutcomes
               /\ Len(HeaderBody(hdrSeen[s], current_best[s].hash)) # HEADER_LEN) =>
              SessionFrames(s) = << >>

\* C7: the frame built from an 80-byte header h and a height is h followed by
\* the height as a little-endian uint32, so the test helper accepts it and
\* the height it reads from it is that height.
C7_FrameRoundTrip ==
    \A s \in Sessions : \A i \in DOMAIN delivered[s] :
        (delivered[s][i].src = "init" /\ hdrSeen[s] = "ok") =>
            /\ delivered[s][i].data =
                  RawHeader(current_best[s].hash) \o pack_le_uint32(current_best[s].height)
            /\ DecodeTipFrame(delivered[s][i].data).result
            /\ DecodeTipFrame(delivered[s][i].data).height = current_best[s].height

\* C8: a chain-tips answer with no LONGEST_CHAIN entry, or with more than one,
\* makes the session send no frame.
C8_NoFrameUnlessOneLongest ==
    \A s \in Sessions :
        (tipsSeen[s].st = "ok" /\ ~AnsweredWith(s, 1)) => SessionFrames(s) = << >>

\* C9: once a session has read a message of type error its socket is closed,
\* it reads no further message, its only steps are those out of the loop and
\* through the teardown, it does take them, and it ends with its registry
\* entry removed and no exception raised.
C9_Step ==
    \A s \in Sessions :
        lastMsg[s] = "error" =>
            /\ lastMsg'[s] = "error"
            /\ texts'[s] = texts[s]
            /\ closedBy'[s] = closedBy[s]
            /\ << pc[s], pc'[s] >> \in
                  { << "recv", "recv" >>, << "recv", "finally_close" >>,
                    << "finally_close", "finally_close" >>,
                    << "finally_close", "finally_del" >>,
                    << "finally_del", "finally_del" >>,
                    << "finally_del", "done" >>, << "done", "done" >> }

C9_Closed(s) == pc[s] = "done" /\ closedBy[s] # "open" /\ ~Registered(s)

C9_ErrorClosesSession ==
    /\ [](\A s \in Sessions : lastMsg[s] = "error" =>
            /\ closedBy[s] # "open"
            /\ raised[s] = "none"
            /\ pc[s] = "done" => C9_Closed(s))
    /\ [][C9_Step]_vars
    /\ \A s \in Sessions : (lastMsg[s] = "error") ~> C9_Closed(s)

C9_Witness ==
    \E s \in Sessions :
        /\ lastMsg[s] = "error"
        /\ texts[s] > 0
        /\ C9_Closed(s)
        /\ \E t \in Sessions : t # s /\ Registered(t)

\* C10: a step in which a session reads a text message sends nothing to its
\* socket, leaves it in the receive loop with its socket open, and leaves its
\* registry entry as it was.
C10_Step ==
    \A s \in Sessions :
        texts'[s] # texts[s] =>
            /\ delivered' = delivered
            /\ pc[s] = "recv" /\ pc'[s] = "recv"
            /\ closedBy'[s] = "open"
            /\ raised'[s] = "none"
            /\ Registered(s)'
            /\ headers_ws_clients' = headers_ws_clients

C10_TextsAreIgnored == [][C10_Step]_vars

C10_Witness ==
    \E s \in Sessions :
        /\ texts[s] = MaxTexts
        /\ MaxTexts > 1
        /\ pc[s] = "recv"
        /\ closedBy[s] = "open"
        /\ Registered(s)

\* C11: whenever the upstream answers a forwarded proxy request with a status
\* other than 200, the handler returns a response (it does not raise) with
\* that same status and reason.
C11_ErrorStatusRelayed ==
    (prResp # NoResponse /\ prUp.kind = "answer" /\ prUp.status # HTTP_OK) =>
        /\ prResp.kind = "response"
        /\ prResp.status = prUp.status
        /\ prResp.reason = prUp.reason

\* C12: whenever the upstream is unreachable for a forwarded proxy request,
\* the handler returns the 503 response and raises nothing.
C12_UnreachableIs503 ==
    (prResp # NoResponse /\ prUp.kind = "unreachable") =>
        /\ prResp.kind = "response"
        /\ prResp.status = HTTP_SERVICE_UNAVAILABLE

\* C14: a get_header request whose 'hash' path parameter is missing or empty
\* gets the 400 response, and nothing has been forwarded to the upstream.
C14_MissingHashRejected ==
    (prReq.op = "get_header" /\ prReq.hash \in {"missing", ""}
        /\ prResp # NoResponse) =>
        /\ prResp.kind = "response"
        /\ prResp.status = HTTP_BAD_REQUEST
        /\ prUp = NoUpstream

C14_Witness ==
    /\ prReq.op = "get_header"
    /\ prReq.hash = "missing"
    /\ prReq.accept = OCTET
    /\ prResp.status = HTTP_BAD_REQUEST

\* C13: the removal step of the teardown raises nothing, also when the
\* session's id is not in the registry because its insert was refused.
C13_RemovalNeverRaises ==
    \A s \in Sessions : raised[s] # "KeyError"

\* C15: every session that a broadcast finds in the registry and whose peer
\* has not closed the connection receives, at the broadcast's push to it,
\* exactly one new frame, 84 bytes long, at the end of what its socket has
\* received.
C15_Step ==
    \A s \in Sessions :
        (s \in bcPending /\ s \notin bcPending' /\ closedBy[s] # "peer") =>
            /\ Len(delivered'[s]) = Len(delivered[s]) + 1
            /\ SubSeq(delivered'[s], 1, Len(delivered[s])) = delivered[s]
            /\ delivered'[s][Len(delivered'[s])].src = "bcast"
            /\ Len(delivered'[s][Len(delivered'[s])].data) = FRAME_LEN

C15_BroadcastReachesEach == [][C15_Step]_vars

\* the initial push has failed with a fault that is not the upstream being
\* unreachable: no longest tip to name in the second request, or a send_bytes
\* that raised
PushFaulted(s) ==
    \/ tipsSeen[s].st = "ok" /\ ~current_best[s].bound
    \/ hdrSeen[s] \in HeaderOutcomes /\ SessionFrames(s) = << >>

\* C16: a session whose initial push has failed with a fault other than the
\* upstream being unreachable never enters the receive loop, and once it has
\* left get its socket is closed and its registry entry is removed.
C16_PushFaultIsFatal ==
    \A s \in Sessions :
        PushFaulted(s) =>
            /\ ~ReachedLoop(s)
            /\ pc[s] = "done" => (closedBy[s] # "open" /\ ~Registered(s))

\* the peer has closed the connection: its close message was read in the
\* loop, or the connection was lost during the upstream fetch and send_bytes
\* found it so
PeerClosed(s) ==
    \/ lastMsg[s] = "close"
    \/ hdrSeen[s] \in HeaderOutcomes /\ SessionFrames(s) = << >>

\* the session states of the lifecycle, read off the position in get
SessionState(s) ==
    CASE pc[s] \in {"idle", "try"} -> "CONNECTING"
      [] pc[s] \in {"fetch_tips", "fetch_header", "recv"} -> "ACTIVE"
      [] pc[s] \in {"finally_close", "finally_del"} -> "CLOSING"
      [] OTHER -> "CLOSED"

Own(t) ==
    [pc |-> pc[t], ws_id |-> ws_id[t], closedBy |-> closedBy[t],
     raised |-> raised[t], current_best |-> current_best[t],
     tipsSeen |-> tipsSeen[t], hdrSeen |-> hdrSeen[t],
     delivered |-> delivered[t], texts |-> texts[t], lastMsg |-> lastMsg[t]]

\* C18: a teardown step of one session (the close or the del of its finally
\* block) takes at most the entry of its own ws_id out of the registry, adds
\* none, and leaves every other session's registry entry, socket, position,
\* fetched answers and received frames, and the broadcast in progress, as
\* they were.
C18_Step ==
    \A s \in Sessions :
        (pc[s] \in {"finally_close", "finally_del"} /\ pc'[s] # pc[s]) =>
            /\ DOMAIN headers_ws_clients \ {ws_id[s]} \subseteq DOMAIN headers_ws_clients'
            /\ DOMAIN headers_ws_clients' \subseteq DOMAIN headers_ws_clients
            /\ \A i \in DOMAIN headers_ws_clients' :
                  headers_ws_clients'[i] = headers_ws_clients[i]
            /\ \A t \in Sessions \ {s} : Own(t)' = Own(t)
            /\ bcPending' = bcPending

C18_TeardownIsLocal == [][C18_Step]_vars

C18_Witness ==
    \E s, t \in Sessions :
        /\ s # t
        /\ pc[s] = "done" /\ ws_id[s] # NoId /\ ~Registered(s)
        /\ closedBy[s] = "session"
        /\ Registered(t) /\ closedBy[t] = "open" /\ pc[t] = "fetch_header"

\* C19: no connection in the registry has a socket that its own session has
\* closed.
C19_RegistryHoldsNoClosedSocket ==
    \A i \in DOMAIN headers_ws_clients :
        closedBy[headers_ws_clients[i].websocket] # "session"

====
